---------------------------- MODULE Spec2Model ----------------------------
(***************************************************************************)
(* A model of FlightAgent's app.py: the Streamlit script that generates a  *)
(* synthetic price series, summarises it, looks the weather up and asks a  *)
(* chat-completion service for travel advice.                              *)
(*                                                                         *)
(* Conventions.  A Python value that may be None or absent is a sequence   *)
(* of length at most one: <<>> is None (or a missing key), <<v>> is v.     *)
(* A pandas scalar is a rational [num, den]; NaN is the rational 0/0.      *)
(* A '%Y-%m-%d' string is the triple <<year, month, day>>, whose order is  *)
(* the order of the strings.  A datetime is the proleptic Gregorian        *)
(* ordinal of its day (date.toordinal()): only the day of every clock read *)
(* reaches the program's results.                                          *)
(***************************************************************************)
EXTENDS Integers, Sequences, FiniteSets, TLC

VARIABLES
    now,             \* the day of the latest datetime.now() read
    midnights,       \* how many midnights the clock has passed since the start
    session_state,   \* st.session_state: <<>>, or <<flight_df>> under key 'flight_df'
    weather_data,    \* the script's weather_data: the last get_weather result
    http,            \* the HTTP exchange the last get_weather call met
    advice,          \* the last get_travel_advice call: locals, prompt, outcome
    ui,              \* what the last run put on the page
    last_action,     \* which operation ran last
    last_generated   \* history: the arguments and result of the last generate_flight_data

vars == <<now, midnights, session_state, weather_data, http, advice, ui,
          last_action, last_generated>>

---------------------------------------------------------------------------
(* Bounds of the model. *)

\* the largest day count the function-level specification passes
MaxDays == 3
\* the day count of the session's searches, standing for the default of 30
SessionDays == 2
\* how many midnights the clock may pass in one behaviour
MaxMidnights == 1
\* the first of the seven start days: 2026-12-28, a Monday, so that the start
\* days cover every weekday and the series cross the end of a year
FirstDay == 739978

(* Program constants. *)
BaseLo == 300
BaseHi == 500
SurchargeLo == 100
SurchargeHi == 200
StatusOk == 200
WeekendFrom == 4

None == <<>>
Some(v) == <<v>>

---------------------------------------------------------------------------
(* datetime: the calendar behind strftime('%Y-%m-%d'), weekday() and       *)
(* strftime('%A').                                                         *)

IsLeap(y) == (y % 4 = 0) /\ ((y % 100 # 0) \/ (y % 400 = 0))

DaysInMonth(y, m) ==
    IF m = 2 THEN (IF IsLeap(y) THEN 29 ELSE 28)
    ELSE IF m \in {4, 6, 9, 11} THEN 30 ELSE 31

RECURSIVE MonthDay(_, _, _)
MonthDay(y, m, n) ==
    IF n < DaysInMonth(y, m) THEN <<y, m, n + 1>>
    ELSE MonthDay(y, m + 1, n - DaysInMonth(y, m))

\* strftime('%Y-%m-%d') of the day with ordinal ord (1 is 0001-01-01)
StrftimeYmd(ord) ==
    LET n0   == ord - 1
        n400 == n0 \div 146097
        r400 == n0 % 146097
        n100 == r400 \div 36524
        r100 == r400 % 36524
        n4   == r100 \div 1461
        r4   == r100 % 1461
        n1   == r4 \div 365
        r1   == r4 % 365
        year == n400 * 400 + n100 * 100 + n4 * 4 + n1 + 1
    IN  IF n1 = 4 \/ n100 = 4 THEN <<year - 1, 12, 31>>
        ELSE MonthDay(year, 1, r1)

\* datetime.weekday(): Monday is 0
Weekday(ord) == (ord + 6) % 7

DayNames == <<"Monday", "Tuesday", "Wednesday", "Thursday", "Friday",
              "Saturday", "Sunday">>

\* strftime('%A')
StrftimeA(ord) == DayNames[Weekday(ord) + 1]

---------------------------------------------------------------------------
(* generate_flight_data *)

\* range(days)
Range(days) == IF days > 0 THEN 1 .. days ELSE {}

\* random.randint(lo, hi), drawn from the ends of its interval
RandInt(lo, hi) == {lo, hi}

\* The days k successive datetime.now() reads can return when the latest
\* read so far returned day t: the clock never runs backwards, and one call
\* lasts less than a day, so at most one midnight passes, before any of the
\* reads (c = 0: since the latest read) or between two of them.  With no
\* room left in the model's horizon no midnight passes.
ClockReads(k, t, room) ==
    {[i \in 1 .. k |-> IF i > c THEN t + 1 ELSE t] :
        c \in (IF room > 0 THEN 0 .. k ELSE {k})}

\* whether the weekday counts as a weekend day for pricing (Fri, Sat, Sun)
IsPeakWeekday(wd) == wd \in {WeekendFrom, WeekendFrom + 1, WeekendFrom + 2}

\* The price of row i: the base draw, plus the surcharge on Fri, Sat, Sun of
\* the day read in the pricing loop.
RowPrice(base_price, surcharge, day_of_week) ==
    IF IsPeakWeekday(day_of_week) THEN base_price + surcharge ELSE base_price

\* The DataFrame generate_flight_data(origin, destination, days) returns when
\* its 3 * days clock reads return clk and its random draws are base and sur.
\* Reads 1..n build the dates, n+1..2n the weekdays of the pricing loop, and
\* 2n+1..3n the day names.
generate_flight_data(days, clk, base, sur) ==
    LET n == Cardinality(Range(days))
    IN  [i \in 1 .. n |->
            [date        |-> StrftimeYmd(clk[i] + (i - 1)),
             price       |-> RowPrice(base[i], sur[i],
                                      Weekday(clk[n + i] + (i - 1))),
             day_of_week |-> StrftimeA(clk[2 * n + i] + (i - 1))]]

---------------------------------------------------------------------------
(* pandas: the Series reductions the script uses *)

NaN == [num |-> 0, den |-> 0]
IsNaN(x) == x.den = 0

\* flight_data['price']
PriceColumn(df) == [i \in 1 .. Len(df) |-> df[i].price]

RECURSIVE SumSeq(_)
SumSeq(s) == IF s = <<>> THEN 0 ELSE Head(s) + SumSeq(Tail(s))

\* Series.mean(): the sum over the count, NaN for an empty Series
SeriesMean(s) == [num |-> SumSeq(s), den |-> Len(s)]

\* Series.min(): NaN for an empty Series
SeriesMin(s) ==
    IF s = <<>> THEN NaN
    ELSE [num |-> CHOOSE m \in {s[i] : i \in 1 .. Len(s)} :
                      \A i \in 1 .. Len(s) : m <= s[i],
          den |-> 1]

\* Series.max(): NaN for an empty Series
SeriesMax(s) ==
    IF s = <<>> THEN NaN
    ELSE [num |-> CHOOSE m \in {s[i] : i \in 1 .. Len(s)} :
                      \A i \in 1 .. Len(s) : m >= s[i],
          den |-> 1]

\* idxmin taking the last label of the minimum instead of the first
SeriesIdxMinLast(s) ==
    IF s = <<>> THEN [exc |-> Some("ValueError"), value |-> 0]
    ELSE [exc   |-> None,
          value |-> CHOOSE i \in 1 .. Len(s) :
                        /\ \A j \in 1 .. Len(s) : s[i] <= s[j]
                        /\ \A j \in i + 1 .. Len(s) : s[j] # s[i]]

\* Series.idxmin(): the first label of the minimum; raises ValueError on an
\* empty Series
SeriesIdxMin(s) ==
    IF s = <<>> THEN [exc |-> Some("ValueError"), value |-> 0]
    ELSE [exc   |-> None,
          value |-> CHOOSE i \in 1 .. Len(s) :
                        /\ s[i] = SeriesMin(s).num
                        /\ \A j \in 1 .. i - 1 : s[j] # s[i]]

\* a - b on pandas scalars
ScalarSub(a, b) ==
    IF IsNaN(a) \/ IsNaN(b) THEN NaN
    ELSE [num |-> a.num * b.den - b.num * a.den, den |-> a.den * b.den]

\* format(x, '.2f') of a non-negative scalar: the hundredths, rounded to
\* nearest, or the text 'nan'.  An exact tie goes to even, as it does for a
\* float that holds the value exactly; a mean of prices is a tie only in a
\* frame whose row count is a multiple of 8, so neither the frames of the
\* model nor the 30 rows of a search produce one.
Format2f(x) ==
    IF IsNaN(x) THEN [nan |-> TRUE, hundredths |-> 0]
    ELSE LET q == (100 * x.num) \div x.den
             r == (100 * x.num) % x.den
         IN  [nan |-> FALSE,
              hundredths |-> IF 2 * r > x.den THEN q + 1
                             ELSE IF 2 * r < x.den THEN q
                             ELSE IF q % 2 = 0 THEN q ELSE q + 1]

---------------------------------------------------------------------------
(* get_weather *)

\* every exception named here is a subclass of Exception
ExceptionClasses == {"Timeout", "ConnectionError", "JSONDecodeError",
                     "KeyError", "IndexError", "TypeError", "ValueError",
                     "APIConnectionError", "APITimeoutError",
                     "APIStatusError"}

\* whether an `except Exception` clause catches exc
ExceptExceptionCatches(exc) == exc \in ExceptionClasses

\* A JSON object is a record with the set of its keys in `keys`; a lookup of
\* a key outside it raises KeyError.  A JSON list is a sequence; an index
\* past its end raises IndexError.
CurrentKeys == {"temp_C", "weatherDesc", "humidity", "windspeedKmph"}

WellFormedData(temp, desc) ==
    [keys |-> {"current_condition"},
     current_condition |->
        << [keys |-> CurrentKeys,
            temp_C |-> temp,
            weatherDesc |-> << [keys |-> {"value"}, value |-> desc] >>,
            humidity |-> "60",
            windspeedKmph |-> "12"] >>]

\* a get_weather that parses the body whatever the status
StatusIsAnything(resp) == TRUE

\* response.status_code == 200
StatusIsSuccess(resp) == resp.status_code = StatusOk

\* what the try block of get_weather does with a response: the exception it
\* raises, or the value it returns (None when it falls through)
GetWeatherTry(resp) ==
    IF resp.exc # None THEN [exc |-> resp.exc, ret |-> None]
    ELSE IF ~StatusIsSuccess(resp) THEN [exc |-> None, ret |-> None]
    ELSE IF ~resp.is_json THEN [exc |-> Some("JSONDecodeError"), ret |-> None]
    ELSE LET data == resp.json IN
    IF "current_condition" \notin data.keys
        THEN [exc |-> Some("KeyError"), ret |-> None]
    ELSE IF Len(data.current_condition) = 0
        THEN [exc |-> Some("IndexError"), ret |-> None]
    ELSE LET current == data.current_condition[1] IN
    IF "temp_C" \notin current.keys
        THEN [exc |-> Some("KeyError"), ret |-> None]
    ELSE IF "weatherDesc" \notin current.keys
        THEN [exc |-> Some("KeyError"), ret |-> None]
    ELSE IF Len(current.weatherDesc) = 0
        THEN [exc |-> Some("IndexError"), ret |-> None]
    ELSE IF "value" \notin current.weatherDesc[1].keys
        THEN [exc |-> Some("KeyError"), ret |-> None]
    ELSE IF "humidity" \notin current.keys
        THEN [exc |-> Some("KeyError"), ret |-> None]
    ELSE IF "windspeedKmph" \notin current.keys
        THEN [exc |-> Some("KeyError"), ret |-> None]
    ELSE [exc |-> None,
          ret |-> Some([temp        |-> current.temp_C,
                        description |-> current.weatherDesc[1].value,
                        humidity    |-> current.humidity,
                        wind_speed  |-> current.windspeedKmph])]

\* get_weather(city) on a response: the value returned, the st.error shown,
\* and the exception that leaves the function, if any
get_weather(resp) ==
    LET t == GetWeatherTry(resp)
    IN  IF t.exc = None
            THEN [value |-> t.ret, st_error |-> None, raised |-> None]
        ELSE IF ExceptExceptionCatches(t.exc[1])
            THEN [value |-> None, st_error |-> t.exc, raised |-> None]
        ELSE [value |-> None, st_error |-> None, raised |-> t.exc]

---------------------------------------------------------------------------
(* get_travel_advice *)

\* a prompt that never gets its weather lines
WeatherInfoNever(destination, weather) == <<>>

\* weather_info: the weather lines of the prompt, or the empty string
WeatherInfo(destination, weather) ==
    IF weather # None
    THEN << [label |-> "Current weather in", value |-> destination, unit |-> ":"],
            [label |-> "Temperature", value |-> weather[1].temp, unit |-> "C"],
            [label |-> "Conditions", value |-> weather[1].description, unit |-> ""],
            [label |-> "Humidity", value |-> weather[1].humidity, unit |-> "%"],
            [label |-> "Wind Speed", value |-> weather[1].wind_speed, unit |-> "km/h"] >>
    ELSE <<>>

\* the f-string prompt: its slots, in the order of the template
BuildPrompt(origin, destination, avg, lo, hi, best_day, weather_info) ==
    [route         |-> <<origin, destination>>,
     average_price |-> Format2f(avg),
     lowest_price  |-> Format2f(lo),
     best_day      |-> best_day,
     highest_price |-> Format2f(hi),
     weather_info  |-> weather_info]

\* the try block around client.messages.create: the exception it raises, or
\* the text of the first content block
MessagesCreateTry(api) ==
    IF api.exc # None THEN [exc |-> api.exc, ret |-> None]
    ELSE IF Len(api.content) = 0 THEN [exc |-> Some("IndexError"), ret |-> None]
    ELSE [exc |-> None,
          ret |-> Some([error_prefix |-> "", text |-> api.content[1]])]

\* a handler that catches the service's status errors only
AdviceHandlerCatchesStatusOnly(exc) == exc = "APIStatusError"

\* whether the handler around client.messages.create catches exc
AdviceHandlerCatches(exc) == ExceptExceptionCatches(exc)

\* get_travel_advice(origin, destination, flight_data, weather_data) when the
\* service answers api: its arguments and locals, the prompt it sent, and
\* what it returned or raised
get_travel_advice(origin, destination, flight_data, weather, api) ==
    LET price     == PriceColumn(flight_data)
        avg_price == SeriesMean(price)
        min_price == SeriesMin(price)
        max_price == SeriesMax(price)
        idx       == SeriesIdxMin(price)
        args      == [origin |-> origin, destination |-> destination,
                      weather_data |-> weather]
    IN  IF idx.exc # None
        THEN [args |-> args,
              summary |-> [avg_price |-> avg_price, min_price |-> min_price,
                           max_price |-> max_price, best_day |-> None],
              prompt  |-> None, api |-> None, ret |-> None, raised |-> idx.exc]
        ELSE
        LET best_day == flight_data[idx.value].date
            prompt   == BuildPrompt(origin, destination, avg_price, min_price,
                                    max_price, best_day,
                                    WeatherInfo(destination, weather))
            t        == MessagesCreateTry(api)
            summary  == [avg_price |-> avg_price, min_price |-> min_price,
                         max_price |-> max_price, best_day |-> Some(best_day)]
        IN  IF t.exc = None
            THEN [args |-> args, summary |-> summary, prompt |-> Some(prompt),
                  api |-> Some(api), ret |-> t.ret, raised |-> None]
            ELSE IF AdviceHandlerCatches(t.exc[1])
            THEN [args |-> args, summary |-> summary, prompt |-> Some(prompt),
                  api |-> Some(api),
                  ret |-> Some([error_prefix |-> "Error getting travel advice: ",
                                text |-> t.exc[1]]),
                  raised |-> None]
            ELSE [args |-> args, summary |-> summary, prompt |-> Some(prompt),
                  api |-> Some(api), ret |-> None, raised |-> t.exc]

---------------------------------------------------------------------------
(* The page: what one run of the script displays *)

EmptyPage ==
    [chart |-> None, metrics |-> None, weather |-> None, warnings |-> {},
     st_error |-> None, markdown |-> None, exception |-> None]

PeakDayNames == {"Friday", "Saturday", "Sunday"}

IsPeakRow(r) == r.day_of_week \in PeakDayNames
IsOffPeakRow(r) == ~IsPeakRow(r)

\* Peak Times Analysis: the three st.metric widgets
PeakTimesAnalysis(flight_df) ==
    LET price       == PriceColumn(flight_df)
        weekend_avg == SeriesMean(PriceColumn(SelectSeq(flight_df, IsPeakRow)))
        weekday_avg == SeriesMean(PriceColumn(SelectSeq(flight_df, IsOffPeakRow)))
    IN  [weekend_avg |-> Format2f(weekend_avg),
         weekday_avg |-> Format2f(weekday_avg),
         best_deal   |-> Format2f(SeriesMin(price)),
         delta       |-> Format2f(ScalarSub(SeriesMean(price), SeriesMin(price)))]

\* the body of the Search Flights button, after the frame is generated
SearchSection(page, origin, destination, flight_df) ==
    [page EXCEPT
        !.chart   = Some([title |-> <<origin, destination>>,
                          x |-> [i \in 1 .. Len(flight_df) |-> flight_df[i].date],
                          y |-> PriceColumn(flight_df)]),
        !.metrics = Some(PeakTimesAnalysis(flight_df))]

\* a search that keeps the frame the session already holds
StoreFlightDfOnce(ss, flight_df) == IF ss = None THEN Some(flight_df) ELSE ss

\* st.session_state['flight_df'] = flight_df
StoreFlightDf(ss, flight_df) == Some(flight_df)

\* 'flight_df' in st.session_state
HasFlightDf(ss) == ss # None

\* the Weather Info column
WeatherSection(page, w) ==
    IF w.raised # None THEN [page EXCEPT !.exception = w.raised]
    ELSE IF w.value # None
    THEN [page EXCEPT !.st_error = w.st_error, !.weather = w.value]
    ELSE [page EXCEPT !.st_error = w.st_error,
                      !.warnings = @ \cup {"Weather data unavailable"}]

\* an advice button without its guard: it asks for advice on whatever the
\* session holds, an empty frame when it holds none
AdviceCallUnguarded(ss, origin, destination, weather, api) ==
    Some(get_travel_advice(origin, destination,
                           IF ss = None THEN <<>> ELSE ss[1], weather, api))

\* the call the advice button makes, when the session holds a frame
AdviceCall(ss, origin, destination, weather, api) ==
    IF HasFlightDf(ss)
    THEN Some(get_travel_advice(origin, destination, ss[1], weather, api))
    ELSE None

\* the body of the Get Personalized Travel Advice button
AdviceSection(page, call) ==
    IF page.exception # None THEN page
    ELSE IF call = None
    THEN [page EXCEPT !.warnings = @ \cup {"Please search for flights first!"}]
    ELSE IF call[1].raised # None THEN [page EXCEPT !.exception = call[1].raised]
    ELSE [page EXCEPT !.markdown = call[1].ret]

---------------------------------------------------------------------------
(* The inputs the environment supplies *)

Origins == {"New York"}
Destinations == {"London", "Tokyo"}

\* the text inputs' default values, which the session's runs keep
DefaultOrigin == "New York"
DefaultDestination == "London"

StartDays == FirstDay .. FirstDay + 6

Sunny == WellFormedData("15", "Sunny")
Snow == WellFormedData("-3", "Light snow")

\* bodies that parse as JSON: two complete ones, and the first with one part
\* missing
JsonBodies ==
    {Sunny, Snow,
     [Sunny EXCEPT !.keys = {}],
     [Sunny EXCEPT !.current_condition = <<>>],
     [Sunny EXCEPT !.current_condition[1].weatherDesc = <<>>],
     [Sunny EXCEPT !.current_condition[1].weatherDesc[1].keys = {}]}
    \cup {[Sunny EXCEPT !.current_condition[1].keys = @ \ {k}] : k \in CurrentKeys}

\* what requests.get(url, timeout=5) can meet: an exception, or a response
\* with a status and a body that parses as JSON or does not
Responses ==
    {[exc |-> Some(e), status_code |-> 0, is_json |-> FALSE, json |-> Sunny] :
        e \in {"Timeout", "ConnectionError"}}
    \cup {[exc |-> None, status_code |-> c, is_json |-> TRUE, json |-> b] :
            c \in {StatusOk, 404}, b \in JsonBodies}
    \cup {[exc |-> None, status_code |-> c, is_json |-> FALSE, json |-> Sunny] :
            c \in {StatusOk, 404}}

\* what client.messages.create can do: raise a transport or service error,
\* or return a message with a list of content blocks
ApiOutcomes ==
    {[exc |-> Some(e), content |-> <<>>] :
        e \in {"APIConnectionError", "APITimeoutError", "APIStatusError"}}
    \cup {[exc |-> None, content |-> c] : c \in {<<>>, <<"Book midweek.">>}}

\* the random draws of one generate_flight_data call with n rows whose
\* pricing loop reads the days clk[n + 1 .. 2n]: a base price for every row,
\* and a surcharge for the rows it prices as weekend rows (the entry of any
\* other row is never drawn, and stands at SurchargeLo)
BaseDraws(n) == [1 .. n -> RandInt(BaseLo, BaseHi)]
SurchargeDraws(n, clk) ==
    {s \in [1 .. n -> RandInt(SurchargeLo, SurchargeHi)] :
        \A i \in 1 .. n :
            ~IsPeakWeekday(Weekday(clk[n + i] + (i - 1))) => s[i] = SurchargeLo}

\* the responses and the service outcomes the session's runs meet: one of
\* each kind
SessionResponses ==
    {r \in Responses :
        \/ r.exc = Some("Timeout")
        \/ r.exc = None /\ r.is_json /\ r.json = Sunny}
SessionApiOutcomes ==
    {a \in ApiOutcomes : a.exc \in {None, Some("APIStatusError")}}

\* the day of the last of the reads clk, or t when there was none
LastRead(clk, t) == IF clk = <<>> THEN t ELSE clk[Len(clk)]

---------------------------------------------------------------------------
(* The session: every action is one run of the script, top to bottom *)

Init ==
    /\ now = FirstDay
    /\ midnights = 0
    /\ session_state = None
    /\ weather_data = None
    /\ http = None
    /\ advice = None
    /\ ui = EmptyPage
    /\ last_action = "start"
    /\ last_generated = None

\* a run with no button pressed: only the weather column does anything
Render ==
    \E resp \in SessionResponses :
      \E w \in {get_weather(resp)} :
            /\ weather_data' = w.value
            /\ http' = Some(resp)
            /\ advice' = None
            /\ ui' = WeatherSection(EmptyPage, w)
            /\ last_action' = "render"
            /\ UNCHANGED <<now, midnights, session_state, last_generated>>

\* a run with Search Flights pressed
SearchFlights ==
    \E origin \in {DefaultOrigin}, destination \in {DefaultDestination},
       resp \in SessionResponses,
       clk \in ClockReads(3 * SessionDays, now, MaxMidnights - midnights) :
      \E base \in BaseDraws(SessionDays),
         sur \in SurchargeDraws(SessionDays, clk) :
      \E flight_df \in {generate_flight_data(SessionDays, clk, base, sur)},
         w \in {get_weather(resp)} :
            /\ session_state' = StoreFlightDf(session_state, flight_df)
            /\ last_generated' = Some([days |-> SessionDays, df |-> flight_df])
            /\ now' = LastRead(clk, now)
            /\ midnights' = midnights + (LastRead(clk, now) - now)
            /\ weather_data' = w.value
            /\ http' = Some(resp)
            /\ advice' = None
            /\ ui' = WeatherSection(
                        SearchSection(EmptyPage, origin, destination, flight_df), w)
            /\ last_action' = IF HasFlightDf(session_state)
                               THEN "search_again" ELSE "search"

\* a run with Get Personalized Travel Advice pressed
GetAdvice ==
    \E origin \in {DefaultOrigin}, destination \in {DefaultDestination},
       resp \in SessionResponses, api \in SessionApiOutcomes :
      \E w \in {get_weather(resp)} :
        \E call \in {IF w.raised # None THEN None
                     ELSE AdviceCall(session_state, origin, destination,
                                     w.value, api)} :
            /\ weather_data' = w.value
            /\ http' = Some(resp)
            /\ advice' = call
            /\ ui' = AdviceSection(WeatherSection(EmptyPage, w), call)
            /\ last_action' = "advice"
            /\ UNCHANGED <<now, midnights, session_state, last_generated>>

Next == Render \/ SearchFlights \/ GetAdvice

Spec == Init /\ [][Next]_vars

---------------------------------------------------------------------------
(* The functions on their own.  A behaviour either applies get_weather to   *)
(* any response, or generates one frame for any day count and start day    *)
(* and applies the Peak Times Analysis or get_travel_advice to it.         *)

InitFn ==
    /\ now \in StartDays
    /\ midnights = 0
    /\ session_state = None
    /\ weather_data = None
    /\ http = None
    /\ advice = None
    /\ ui = EmptyPage
    /\ last_action = "start"
    /\ last_generated = None

\* the values get_weather can return
WeatherValues == {get_weather(r).value : r \in Responses}

CallGenerate ==
    /\ last_action = "start"
    /\ \E days \in -1 .. MaxDays :
         LET n == Cardinality(Range(days))
         IN  \E clk \in ClockReads(3 * n, now, MaxMidnights - midnights) :
               \E base \in BaseDraws(n), sur \in SurchargeDraws(n, clk) :
                /\ last_generated' =
                      Some([days |-> days,
                            df |-> generate_flight_data(days, clk, base, sur)])
                /\ now' = LastRead(clk, now)
                /\ midnights' = midnights + (LastRead(clk, now) - now)
    /\ last_action' = "generate_flight_data"
    /\ UNCHANGED <<session_state, weather_data, http, advice, ui>>

CallPeakTimes ==
    /\ last_action = "generate_flight_data"
    /\ ui' = [ui EXCEPT
                !.metrics = Some(PeakTimesAnalysis(last_generated[1].df))]
    /\ last_action' = "peak_times"
    /\ UNCHANGED <<now, midnights, session_state, weather_data, http, advice,
                   last_generated>>

CallGetWeather ==
    /\ last_generated = None
    /\ \E resp \in Responses :
      \E w \in {get_weather(resp)} :
            /\ weather_data' = w.value
            /\ http' = Some(resp)
            /\ ui' = [EmptyPage EXCEPT !.st_error = w.st_error,
                                       !.exception = w.raised]
            /\ last_action' = "get_weather"
            /\ UNCHANGED <<now, midnights, session_state, advice,
                           last_generated>>

CallGetTravelAdvice ==
    /\ last_action = "generate_flight_data"
    /\ \E origin \in Origins, destination \in Destinations,
          weather \in WeatherValues, api \in ApiOutcomes :
       \E a \in {get_travel_advice(origin, destination,
                                    last_generated[1].df, weather, api)} :
             /\ weather_data' = weather
             /\ advice' = Some(a)
             /\ ui' = [ui EXCEPT !.exception = a.raised]
    /\ last_action' = "get_travel_advice"
    /\ UNCHANGED <<now, midnights, session_state, http, last_generated>>

NextFn == CallGenerate \/ CallPeakTimes \/ CallGetWeather \/ CallGetTravelAdvice

SpecFn == InitFn /\ [][NextFn]_vars

---------------------------------------------------------------------------
(* Properties *)

\* the frame of the last generate_flight_data call
Frame == last_generated[1].df

\* the day after a '%Y-%m-%d' date
NextDate(d) ==
    IF d[3] < DaysInMonth(d[1], d[2]) THEN <<d[1], d[2], d[3] + 1>>
    ELSE IF d[2] < 12 THEN <<d[1], d[2] + 1, 1>>
    ELSE <<d[1] + 1, 1, 1>>

SearchFirstWarning == "Please search for flights first!"

\* C1: before the first Search Flights of a session no run calls
\* get_travel_advice (so none calls client.messages.create), and a Get Advice
\* run shows the warning instead of any advice.
C1_NoAdviceBeforeFirstSearch ==
    last_generated = None =>
        /\ advice = None
        /\ last_action = "advice" =>
              /\ SearchFirstWarning \in ui.warnings
              /\ ui.markdown = None
              /\ ui.exception = None

C1_Witness ==
    /\ last_generated = None
    /\ last_action = "advice"
    /\ SearchFirstWarning \in ui.warnings
    /\ advice = None

\* C2: for a day count n > 0 the frame has exactly n rows, and each row's
\* date is the day after the date of the row before it.
C2_ConsecutiveDates ==
    (last_generated # None /\ last_generated[1].days > 0) =>
        /\ Len(Frame) = last_generated[1].days
        /\ \A i \in 1 .. Len(Frame) - 1 :
              Frame[i + 1].date = NextDate(Frame[i].date)

\* C3: when client.messages.create fails with a transport or service error
\* on a non-empty frame, get_travel_advice returns a string that starts with
\* the error text and raises nothing.
C3_ServiceErrorIsReturned ==
    (/\ advice # None
     /\ last_action = "get_travel_advice"
     /\ Len(Frame) > 0
     /\ advice[1].api # None
     /\ advice[1].api[1].exc # None) =>
        /\ advice[1].raised = None
        /\ ui.exception = None
        /\ advice[1].ret # None
        /\ advice[1].ret[1].error_prefix = "Error getting travel advice: "
        /\ advice[1].ret[1].text = advice[1].api[1].exc[1]

C3_Witness ==
    /\ advice # None
    /\ last_action = "get_travel_advice"
    /\ Len(Frame) > 0
    /\ advice[1].api = Some([exc |-> Some("APIConnectionError"), content |-> <<>>])
    /\ advice[1].ret # None
    /\ advice[1].ret[1].error_prefix # ""

\* a body with every part get_weather reads
CompleteBody(d) ==
    /\ "current_condition" \in d.keys
    /\ Len(d.current_condition) >= 1
    /\ CurrentKeys \subseteq d.current_condition[1].keys
    /\ Len(d.current_condition[1].weatherDesc) >= 1
    /\ "value" \in d.current_condition[1].weatherDesc[1].keys

GoodResponse(r) ==
    /\ r.exc = None
    /\ r.status_code = 200
    /\ r.is_json
    /\ CompleteBody(r.json)

\* C4: get_weather returns a snapshot exactly when the request succeeds with
\* status 200 and a complete JSON body, the snapshot holding the body's
\* values; on every other response it returns None; it never raises.
C4_WeatherAbsentOnFailure ==
    last_action = "get_weather" =>
        /\ ui.exception = None
        /\ weather_data # None <=> GoodResponse(http[1])
        /\ weather_data # None =>
              LET c == http[1].json.current_condition[1]
              IN  weather_data[1] = [temp        |-> c.temp_C,
                                     description |-> c.weatherDesc[1].value,
                                     humidity    |-> c.humidity,
                                     wind_speed  |-> c.windspeedKmph]

C4_Witness ==
    /\ last_action = "get_weather"
    /\ http[1].exc = None
    /\ http[1].status_code = 200
    /\ http[1].is_json
    /\ ~CompleteBody(http[1].json)
    /\ weather_data = None
    /\ ui.exception = None

\* C5: on a non-empty frame the summary has min <= mean <= max, the minimum
\* is the least price of the frame, and best_day is the date of the first row
\* whose price is the minimum.
C5_SummaryOrderAndBestDay ==
    (advice # None /\ last_action = "get_travel_advice" /\ Len(Frame) > 0) =>
        LET m == advice[1].summary IN
        /\ ~IsNaN(m.avg_price) /\ ~IsNaN(m.min_price) /\ ~IsNaN(m.max_price)
        /\ m.min_price.num * m.avg_price.den <= m.avg_price.num * m.min_price.den
        /\ m.avg_price.num * m.max_price.den <= m.max_price.num * m.avg_price.den
        /\ \A i \in 1 .. Len(Frame) : m.min_price.num <= Frame[i].price * m.min_price.den
        /\ \E i \in 1 .. Len(Frame) :
              /\ Frame[i].price * m.min_price.den = m.min_price.num
              /\ \A j \in 1 .. i - 1 :
                    Frame[j].price * m.min_price.den # m.min_price.num
              /\ m.best_day = Some(Frame[i].date)

\* a frame whose least price occurs twice, on different dates
C5_Witness ==
    /\ advice # None
    /\ last_action = "get_travel_advice"
    /\ Len(Frame) > 1
    /\ Frame[1].price = Frame[2].price
    /\ Frame[1].date # Frame[2].date
    /\ \A i \in 1 .. Len(Frame) : Frame[1].price <= Frame[i].price
    /\ advice[1].summary.best_day = Some(Frame[1].date)

WeekdayNames == {"Monday", "Tuesday", "Wednesday", "Thursday"}
WeekendNames == {"Friday", "Saturday", "Sunday"}

\* C7: every price of a generated frame is a positive integer, in 300..500
\* on a row of Monday to Thursday and in 400..700 (a base of 300..500 plus a
\* surcharge of 100..200) on a row of Friday, Saturday or Sunday.
C7_PriceBands ==
    last_generated # None =>
        \A i \in 1 .. Len(Frame) :
            /\ Frame[i].price \in Nat /\ Frame[i].price > 0
            /\ Frame[i].day_of_week \in WeekdayNames =>
                  Frame[i].price \in 300 .. 500
            /\ Frame[i].day_of_week \in WeekendNames =>
                  Frame[i].price \in 400 .. 700

\* C8: every prompt get_travel_advice builds holds the route, the mean (to
\* the nearest hundredth), the least and the greatest price and the best
\* day; it holds the weather lines, with the snapshot's four values, exactly
\* when the weather argument is present.
C8_PromptContents ==
    (advice # None /\ last_action = "get_travel_advice"
        /\ advice[1].prompt # None) =>
        LET a == advice[1]
            q == a.prompt[1]
            n == Len(Frame)
            total == SumSeq(PriceColumn(Frame))
        IN  /\ q.route = <<a.args.origin, a.args.destination>>
            /\ ~q.average_price.nan
            /\ 2 * (q.average_price.hundredths * n - 100 * total) <= n
            /\ 2 * (100 * total - q.average_price.hundredths * n) <= n
            /\ ~q.lowest_price.nan /\ ~q.highest_price.nan
            /\ \A i \in 1 .. n :
                  /\ q.lowest_price.hundredths <= 100 * Frame[i].price
                  /\ q.highest_price.hundredths >= 100 * Frame[i].price
            /\ \E i \in 1 .. n :
                  /\ q.lowest_price.hundredths = 100 * Frame[i].price
                  /\ q.best_day = Frame[i].date
            /\ \E i \in 1 .. n : q.highest_price.hundredths = 100 * Frame[i].price
            /\ q.weather_info # <<>> <=> a.args.weather_data # None
            /\ a.args.weather_data # None =>
                  LET w == a.args.weather_data[1]
                  IN  {<<l.label, l.value>> : l \in
                          {q.weather_info[i] : i \in 1 .. Len(q.weather_info)}}
                      = {<<"Current weather in", a.args.destination>>,
                         <<"Temperature", w.temp>>,
                         <<"Conditions", w.description>>,
                         <<"Humidity", w.humidity>>,
                         <<"Wind Speed", w.wind_speed>>}

\* a prompt built with a snapshot, holding its weather lines
C8_Witness ==
    /\ advice # None
    /\ last_action = "get_travel_advice"
    /\ advice[1].prompt # None
    /\ advice[1].args.weather_data # None
    /\ Len(advice[1].prompt[1].weather_info) = 5
    /\ advice[1].args.destination = "Tokyo"

C10_SessionHoldsLatestFrame ==
    /\ session_state = IF last_generated = None THEN None ELSE Some(Frame)
    /\ advice # None =>
          /\ last_generated # None
          /\ advice[1].summary.avg_price =
                [num |-> SumSeq(PriceColumn(Frame)), den |-> Len(Frame)]
          /\ advice[1].summary.best_day # None
          /\ \E i \in 1 .. Len(Frame) :
                advice[1].summary.best_day[1] = Frame[i].date

\* a second search has replaced the frame of the first
C10_Witness ==
    /\ last_action = "search_again"
    /\ session_state = Some(Frame)

=============================================================================
